---- MODULE Spec2Model ----
(***************************************************************************)
(* The reaction vessel of nonconstructive_explicit.py: Molecule,           *)
(* Reaction, Vessel and the run loop of simulate_basic.                    *)
(*                                                                         *)
(* A Python dict is a function whose DOMAIN is its key set.  A dict is     *)
(* iterated in insertion order: the keys of a tally are inserted in the    *)
(* order of all_molecules, the keys of molecule_amounts in the order of    *)
(* DictOrder.  A raised exception is a value "ValueError", "KeyError" or   *)
(* "ZeroDivisionError" of the variable outcome (or of a result's err       *)
(* field); the heap is left as the raising statement found it.             *)
(***************************************************************************)
EXTENDS Integers, Sequences, FiniteSets, TLC

\* Molecule symbols that inputs are drawn from (Molecule("A"), Molecule("B")).
Names == {"A", "B"}

\* Largest initial amount of one molecule type in the general configurations.
MaxAmount == 1

\* Longest rule table of the general configurations.
MaxRules == 2

\* Largest number_to_select passed to simulate_step (-1 is passed as well).
MaxSelect == 2

\* Largest iteration count of a run.
MaxIters == 2

\* Largest initial amount of a type in the vessels of simulate_basic's table
\* (initial_amount_each, 5000 in the source).
MaxEach == 2

VARIABLES
    molecule_types,     \* Vessel.molecule_types: list of declared Molecules
    molecules,          \* Vessel.molecules: the population, a list
    reactions,          \* Vessel.reactions: list of Reaction
    number_to_select,   \* argument of the latest simulate_step call
    reactants,          \* local of simulate_step: the sampled molecules
    reactants_amounts,  \* local of simulate_step: their tally
    outcome,            \* how the latest simulate_step call ended
    rule,               \* index of the reaction it stopped at (0: none)
    pc,                 \* position of the caller: idle | running | done | failed
    iters,              \* simulate_basic: number of iterations of the loop
    i,                  \* simulate_basic: iterations completed
    amounts_each,       \* simulate_basic: tally of the population after a step
    percentages_each,   \* simulate_basic: amount * 100 for each type (numerators
                        \* of the percentages, whose denominator is total_amount)
    molecule_amounts,   \* simulate_basic: the initial amounts given to Vessel
    error,              \* the exception that ended the caller's loop, or "none"
    xdata,              \* simulate_basic: plot_A.get_xdata(), the step numbers
                        \* the chart has data for
    drawn               \* simulate_basic: the iterations i after which the
                        \* chart was redrawn (draw and pause), in order

vars == << molecule_types, molecules, reactions, number_to_select, reactants,
           reactants_amounts, outcome, rule, pc, iters, i, amounts_each,
           percentages_each, molecule_amounts, error, xdata, drawn >>

loopvars == << pc, iters, i, amounts_each, percentages_each, error, xdata,
              drawn >>

----------------------------------------------------------------------------
(* Helpers for lists and dicts *)

Range(s) == {s[n] : n \in DOMAIN s}

EmptyDict == [t \in {} |-> 0]

RECURSIVE SumOver(_, _)
SumOver(d, keys) ==
    IF keys = {} THEN 0
    ELSE LET t == CHOOSE x \in keys : TRUE
         IN  d[t] + SumOver(d, keys \ {t})

\* Sum of a dict's values.
DictSum(d) == SumOver(d, DOMAIN d)

\* Number of positions of list s holding t.
Occurrences(s, t) == Cardinality({n \in DOMAIN s : s[n] = t})

\* [x] * n
Repeat(x, n) == [k \in 1..n |-> x]

----------------------------------------------------------------------------
(* Molecule.molecules_to_amounts *)

\* Mutant of ZeroAmounts: every type starts at one.
ZeroAmountsOne(all_molecules) == [t \in Range(all_molecules) |-> 1]

\* Lines 23-25: every type of all_molecules set to zero.
ZeroAmounts(all_molecules) == [t \in Range(all_molecules) |-> 0]

\* Lines 26-27 from the n-th molecule on: molecule_amounts[molecule] += 1,
\* which raises KeyError for a molecule that is no key.
RECURSIVE CountMolecules(_, _, _)
CountMolecules(counted, mols, n) ==
    IF n > Len(mols) THEN [err |-> "none", amounts |-> counted]
    ELSE IF mols[n] \notin DOMAIN counted
         THEN [err |-> "KeyError", amounts |-> EmptyDict]
         ELSE CountMolecules([counted EXCEPT ![mols[n]] = @ + 1], mols, n + 1)

\* Mutant of molecules_to_amounts: the loop of line 26 misses the first molecule.
molecules_to_amounts_skip(all_molecules, mols) ==
    CountMolecules([t \in Range(all_molecules) |-> 0], mols, 2)

molecules_to_amounts(all_molecules, mols) ==
    CountMolecules(ZeroAmounts(all_molecules), mols, 1)

----------------------------------------------------------------------------
(* Reaction *)

Reaction(reactants_needed, product) ==
    [reactants_needed |-> reactants_needed, product |-> product]

\* Lines 48-52 from the n-th item of amounts.items() on; keys lists the keys
\* of amounts in insertion order.  self.reactants_needed[reactant] raises
\* KeyError when the rule does not list the reactant.
RECURSIVE CanOccurFrom(_, _, _, _)
CanOccurFrom(reaction, amounts, keys, n) ==
    IF n > Len(keys) THEN "True"
    ELSE IF keys[n] \notin DOMAIN reaction.reactants_needed THEN "KeyError"
    ELSE IF amounts[keys[n]] < reaction.reactants_needed[keys[n]] THEN "False"
    ELSE CanOccurFrom(reaction, amounts, keys, n + 1)

can_occur(reaction, amounts, keys) == CanOccurFrom(reaction, amounts, keys, 1)

----------------------------------------------------------------------------
(* Vessel *)

\* Insertion order of the keys of molecule_amounts (line 91 builds the dict
\* over all_molecules, in this order).  Another order permutes the initial
\* population.
DictOrder == << "A", "B" >>

\* Lines 66-68 from the n-th item of molecule_amounts.items() on.
RECURSIVE ExtendFrom(_, _)
ExtendFrom(amounts, n) ==
    IF n > Len(DictOrder) THEN << >>
    ELSE (IF DictOrder[n] \in DOMAIN amounts
          THEN Repeat(DictOrder[n], amounts[DictOrder[n]])
          ELSE << >>) \o ExtendFrom(amounts, n + 1)

\* Vessel.__init__: the population built from the initial amounts.
InitialMolecules(amounts) == ExtendFrom(amounts, 1)

\* Mutant of SampleRaises: a sample of the whole population is refused,
\* k >= len(population).
SampleRaisesAtM(mols, k) == k < 0 \/ k >= Len(mols)

\* random.sample(population, k) raises ValueError for these k.
SampleRaises(mols, k) == k < 0 \/ k > Len(mols)

\* Mutant of Samples: the reactants are drawn with replacement,
\* random.choices(self.molecules, k=number_to_select).
SamplesWithReplacement(mols, k) ==
    { [n \in 1..k |-> mols[q[n]]] : q \in [1..k -> 1..Len(mols)] }

\* random.sample(population, k) otherwise: the molecules at k pairwise
\* distinct positions, in the order drawn.
Samples(mols, k) ==
    { [n \in 1..k |-> mols[p[n]]] :
        p \in { q \in [1..k -> 1..Len(mols)] :
                   \A a, b \in 1..k : a # b => q[a] # q[b] } }

\* Lines 79-81 from the n-th reaction on: the first reaction that can occur,
\* unless can_occur raises on the way.
RECURSIVE FindFrom(_, _, _, _)
FindFrom(rxns, amounts, keys, n) ==
    IF n > Len(rxns) THEN [found |-> "nomatch", rule |-> 0]
    ELSE LET c == can_occur(rxns[n], amounts, keys)
         IN  IF c = "KeyError" THEN [found |-> "KeyError", rule |-> n]
             ELSE IF c = "True" THEN [found |-> "match", rule |-> n]
             ELSE FindFrom(rxns, amounts, keys, n + 1)

\* Mutant of find_reaction: the loop of lines 79-83 without its break, so
\* that the last reaction that can occur is the one carried out.
find_reaction_last(rxns, amounts, keys) ==
    LET hits == { n \in 1..Len(rxns) :
                    can_occur(rxns[n], amounts, keys) = "True" }
        errs == { n \in 1..Len(rxns) :
                    can_occur(rxns[n], amounts, keys) = "KeyError" }
    IN  IF errs # {}
        THEN [found |-> "KeyError", rule |-> CHOOSE n \in errs : \A m \in errs : n <= m]
        ELSE IF hits = {} THEN [found |-> "nomatch", rule |-> 0]
        ELSE [found |-> "match", rule |-> CHOOSE n \in hits : \A m \in hits : n >= m]

find_reaction(rxns, amounts, keys) == FindFrom(rxns, amounts, keys, 1)

\* Mutant of RandRange: the first slot is always the one overwritten.
RandRangeFirst(n) == IF n > 0 THEN {0} ELSE {}

\* random.randrange(n): the values it can return (none: it raises ValueError).
RandRange(n) == 0 .. (n - 1)

\* Mutant of Replace: self.molecules.append(product).
ReplaceAppends(mols, slot, product) == Append(mols, product)

\* Line 82: self.molecules[slot] = product, slot counted from 0.
Replace(mols, slot, product) == [mols EXCEPT ![slot + 1] = product]

StepResult(mols, sampled, amounts, how, n) ==
    [molecules |-> mols, reactants |-> sampled, reactants_amounts |-> amounts,
     outcome |-> how, rule |-> n]

\* Mutant of AfterSample: product is assigned before the test of line 80 and
\* the replacement of line 82 follows the loop, so that it is carried out with
\* the last reaction's product when no reaction can occur.
AfterSampleWritesAnyway(mols, types, rxns, sampled) ==
    LET t == molecules_to_amounts(types, sampled)
    IN  IF t.err # "none"
        THEN { StepResult(mols, sampled, EmptyDict, t.err, 0) }
        ELSE LET f == find_reaction(rxns, t.amounts, types)
             IN  IF f.found = "KeyError"
                 THEN { StepResult(mols, sampled, t.amounts, f.found, f.rule) }
                 ELSE IF Len(rxns) = 0 \/ Len(mols) = 0
                 THEN { StepResult(mols, sampled, t.amounts, "nomatch", 0) }
                 ELSE { StepResult(
                          Replace(mols, slot,
                                  rxns[IF f.found = "match" THEN f.rule
                                       ELSE Len(rxns)].product),
                          sampled, t.amounts,
                          IF f.found = "match" THEN "replaced" ELSE "nomatch",
                          f.rule) : slot \in RandRange(Len(mols)) }

\* Lines 76-83 once the reactants are drawn: every way the call can end.
AfterSample(mols, types, rxns, sampled) ==
    LET t == molecules_to_amounts(types, sampled)
    IN  IF t.err # "none"
        THEN { StepResult(mols, sampled, EmptyDict, t.err, 0) }
        ELSE LET f == find_reaction(rxns, t.amounts, types)
             IN  IF f.found = "match"
                 THEN IF RandRange(Len(mols)) = {}
                      THEN { StepResult(mols, sampled, t.amounts, "ValueError", f.rule) }
                      ELSE { StepResult(Replace(mols, slot, rxns[f.rule].product),
                                        sampled, t.amounts, "replaced", f.rule) :
                               slot \in RandRange(Len(mols)) }
                 ELSE { StepResult(mols, sampled, t.amounts, f.found, f.rule) }

\* Mutant of simulate_step: the sample is cut to the population,
\* random.sample(self.molecules, min(number_to_select, len(self.molecules))).
simulate_step_clamped(mols, types, rxns, k) ==
    IF k < 0
    THEN { StepResult(mols, << >>, EmptyDict, "ValueError", 0) }
    ELSE UNION { AfterSample(mols, types, rxns, sampled) :
                   sampled \in Samples(mols, IF k > Len(mols) THEN Len(mols) ELSE k) }

\* Vessel.simulate_step(number_to_select): every way the call can end.
simulate_step(mols, types, rxns, k) ==
    IF SampleRaises(mols, k)
    THEN { StepResult(mols, << >>, EmptyDict, "ValueError", 0) }
    ELSE UNION { AfterSample(mols, types, rxns, sampled) :
                   sampled \in Samples(mols, k) }

Raised == {"ValueError", "KeyError", "ZeroDivisionError"}

\* The call vessel.simulate_step(k) ends as r, one of
\* simulate_step(molecules, molecule_types, reactions, k).
SimulateStep(k, r) ==
    /\ number_to_select' = k
    /\ molecules' = r.molecules
    /\ reactants' = r.reactants
    /\ reactants_amounts' = r.reactants_amounts
    /\ outcome' = r.outcome
    /\ rule' = r.rule
    /\ UNCHANGED << molecule_types, reactions, molecule_amounts >>

----------------------------------------------------------------------------
(* simulate_basic *)

\* Mutant of BasicReactions: the products the other way round,
\* all_molecules[1 if i and j else 0].
BasicReactionsSwapped(all_molecules) ==
    [n \in 1..4 |->
        LET ri == (n - 1) \div 2
            rj == (n - 1) % 2
        IN  Reaction(
              molecules_to_amounts(all_molecules,
                  << all_molecules[ri + 1], all_molecules[rj + 1] >>).amounts,
              all_molecules[(IF ri # 0 /\ rj # 0 THEN 1 ELSE 0) + 1])]

\* Mutant of BasicReactions: the product is the first type as soon as one
\* reactant is the second, all_molecules[0 if i or j else 1].
BasicReactionsOr(all_molecules) ==
    [n \in 1..4 |->
        LET ri == (n - 1) \div 2
            rj == (n - 1) % 2
        IN  Reaction(
              molecules_to_amounts(all_molecules,
                  << all_molecules[ri + 1], all_molecules[rj + 1] >>).amounts,
              all_molecules[(IF ri # 0 \/ rj # 0 THEN 0 ELSE 1) + 1])]

\* Lines 94-100: the reaction table built over all_molecules, row 2*i + j.
BasicReactions(all_molecules) ==
    [n \in 1..4 |->
        LET ri == (n - 1) \div 2
            rj == (n - 1) % 2
        IN  Reaction(
              molecules_to_amounts(all_molecules,
                  << all_molecules[ri + 1], all_molecules[rj + 1] >>).amounts,
              all_molecules[(IF ri # 0 /\ rj # 0 THEN 0 ELSE 1) + 1])]

\* Line 88.
all_molecules_basic == << "A", "B" >>

\* Line 90 for any initial amounts: the number of molecules handed to Vessel.
total_amount == DictSum(molecule_amounts)

\* Lines 122-123 on a population: the tally and the percentages' numerators.
\* The division by total_amount raises ZeroDivisionError when it is 0 and
\* there is an amount to divide.
Concentrations(types, mols, total) ==
    LET t == molecules_to_amounts(types, mols)
    IN  IF t.err # "none"
        THEN [err |-> t.err, amounts |-> EmptyDict, percentages |-> EmptyDict]
        ELSE IF total = 0 /\ DOMAIN t.amounts # {}
        THEN [err |-> "ZeroDivisionError", amounts |-> t.amounts,
              percentages |-> EmptyDict]
        ELSE [err |-> "none", amounts |-> t.amounts,
              percentages |-> [x \in DOMAIN t.amounts |-> t.amounts[x] * 100]]

----------------------------------------------------------------------------
(* Configurations *)

\* The example configuration of the specification: types A and B, two of
\* each, and the table [ {A:1, B:1} -> A, {} -> B ].
ScenarioTypes == << "A", "B" >>
ScenarioAmounts == [t \in {"A", "B"} |-> 2]
ScenarioReactions ==
    << Reaction([t \in {"A", "B"} |-> 1], "A"), Reaction(EmptyDict, "B") >>

\* Lists of declared types: none, A alone (B is then undeclared), A and B.
TypeLists == { << >>, << "A" >>, << "A", "B" >> }

\* Initial amounts: any dict over some of the names.
AmountDicts == UNION { [S -> 0..MaxAmount] : S \in SUBSET Names }

\* Reactions that tables are made of: the rows of simulate_basic's table and
\* of the example table.
Rules == Range(BasicReactions(all_molecules_basic)) \cup Range(ScenarioReactions)

Tables == UNION { [1..n -> Rules] : n \in 0..MaxRules }

\* Vessel(types, amounts, table) constructed, no call made yet.
Constructed(types, amounts, table) ==
    /\ molecule_types = types
    /\ molecule_amounts = amounts
    /\ molecules = InitialMolecules(amounts)
    /\ reactions = table
    /\ number_to_select = 0
    /\ reactants = << >>
    /\ reactants_amounts = EmptyDict
    /\ outcome = "none"
    /\ rule = 0

\* Vessels of simulate_basic's types and table (lines 88-103) with any
\* initial amounts (simulate_basic gives both types initial_amount_each), of
\* the example configuration, and of any types and initial amounts with a
\* table of tables.
Vessels(tables) ==
    \/ \E amounts \in [Range(all_molecules_basic) -> 0..MaxEach] :
          Constructed(all_molecules_basic, amounts,
                      BasicReactions(all_molecules_basic))
    \/ Constructed(ScenarioTypes, ScenarioAmounts, ScenarioReactions)
    \/ \E types \in TypeLists, amounts \in AmountDicts, table \in tables :
          Constructed(types, amounts, table)

\* The run loop is started on the tables of at most one rule (and on the two
\* whole tables above).
RunTables == { table \in Tables : Len(table) <= 1 }

----------------------------------------------------------------------------
(* A caller that constructs a Vessel and calls simulate_step any number of
   times, with any argument. *)

Init ==
    /\ Vessels(Tables)
    /\ pc = "idle"
    /\ iters = 0
    /\ i = 0
    /\ amounts_each = EmptyDict
    /\ percentages_each = EmptyDict
    /\ error = "none"
    /\ xdata = << 0 >>
    /\ drawn = << >>

Call ==
    /\ pc = "idle"
    /\ \E k \in -1..MaxSelect :
         \E r \in simulate_step(molecules, molecule_types, reactions, k) :
            SimulateStep(k, r)
    /\ UNCHANGED loopvars

Next == Call

Spec == Init /\ [][Next]_vars

----------------------------------------------------------------------------
(* simulate_basic's loop over a Vessel of any configuration: iters iterations
   of simulate_step and the concentrations after it.  A caller that keeps the
   vessel may call simulate_step again after the loop has ended. *)

InitRun ==
    /\ Vessels(RunTables)
    /\ pc = "running"
    /\ iters \in 0..MaxIters
    /\ i = 0
    /\ amounts_each = EmptyDict
    /\ percentages_each = EmptyDict
    /\ error = "none"
    /\ xdata = << 0 >>
    /\ drawn = << >>

\* Mutant of DrawDue: no throttle, the chart is redrawn after every step.
DrawDueEveryStep(step, total) == TRUE

\* Line 130, for total > 0: step % (total_amount/10) == 0 in floating point.
\* The remainder is exact for the operands given, and total_amount/10 is the
\* exact tenth only when total_amount is a multiple of 5; any other quotient
\* is rounded to a float of which no step number but 0 is a multiple.
DrawDue(step, total) ==
    \/ step = 0
    \/ total % 5 = 0 /\ (10 * step) % total = 0

\* Mutant of LoopStep: a while loop whose counter is advanced only by the
\* steps that carried out a reaction; a step without one is not counted.
LoopStepCountsReactions ==
    /\ pc = "running"
    /\ i < iters
    /\ \E k \in -1..MaxSelect :
         \E r \in simulate_step(molecules, molecule_types, reactions, k) :
            /\ SimulateStep(k, r)
            /\ IF r.outcome \in Raised
               THEN /\ pc' = "failed"
                    /\ error' = r.outcome
                    /\ UNCHANGED << iters, i, amounts_each, percentages_each,
                                    xdata, drawn >>
               ELSE IF r.outcome = "nomatch"
               THEN UNCHANGED loopvars
               ELSE LET c == Concentrations(molecule_types, r.molecules,
                                            total_amount)
                    IN  /\ amounts_each' = c.amounts
                        /\ percentages_each' = c.percentages
                        /\ UNCHANGED iters
                        /\ IF c.err # "none"
                           THEN /\ pc' = "failed"
                                /\ error' = c.err
                                /\ UNCHANGED << i, xdata, drawn >>
                           ELSE /\ xdata' = Append(xdata, i + 1)
                                /\ pc' = "running"
                                /\ error' = "none"
                                /\ i' = i + 1
                                /\ drawn' = IF DrawDue(i, total_amount)
                                            THEN Append(drawn, i) ELSE drawn

\* Lines 117-134: one iteration, the step, the concentrations after it, the
\* chart's new data point and the throttled redraw.  An exception ends the
\* loop and the run.  The chart is a sink: it is given step number i + 1 with
\* the concentrations after every step, and is redrawn when line 130 lets the
\* iteration through (the modulo of line 130 raises for total_amount 0).
LoopStep ==
    /\ pc = "running"
    /\ i < iters
    /\ \E k \in -1..MaxSelect :
         \E r \in simulate_step(molecules, molecule_types, reactions, k) :
            /\ SimulateStep(k, r)
            /\ IF r.outcome \in Raised
               THEN /\ pc' = "failed"
                    /\ error' = r.outcome
                    /\ UNCHANGED << iters, i, amounts_each, percentages_each,
                                    xdata, drawn >>
               ELSE LET c == Concentrations(molecule_types, r.molecules,
                                            total_amount)
                    IN  /\ amounts_each' = c.amounts
                        /\ percentages_each' = c.percentages
                        /\ UNCHANGED iters
                        /\ IF c.err # "none"
                           THEN /\ pc' = "failed"
                                /\ error' = c.err
                                /\ UNCHANGED << i, xdata, drawn >>
                           ELSE /\ xdata' = Append(xdata, i + 1)
                                /\ IF total_amount = 0
                                   THEN /\ pc' = "failed"
                                        /\ error' = "ZeroDivisionError"
                                        /\ UNCHANGED << i, drawn >>
                                   ELSE /\ pc' = "running"
                                        /\ error' = "none"
                                        /\ i' = i + 1
                                        /\ drawn' =
                                             IF DrawDue(i, total_amount)
                                             THEN Append(drawn, i)
                                             ELSE drawn

\* Mutant of LoopExit: the loop is left one iteration early,
\* range(iters - 1).
LoopExitEarly ==
    /\ pc = "running"
    /\ i >= iters - 1
    /\ pc' = "done"
    /\ UNCHANGED << molecule_types, molecules, reactions, molecule_amounts,
                    number_to_select, reactants, reactants_amounts, outcome,
                    rule, iters, i, amounts_each, percentages_each, error,
                    xdata, drawn >>

\* Line 117: range(iters) is exhausted, simulate_basic returns.
LoopExit ==
    /\ pc = "running"
    /\ i >= iters
    /\ pc' = "done"
    /\ UNCHANGED << molecule_types, molecules, reactions, molecule_amounts,
                    number_to_select, reactants, reactants_amounts, outcome,
                    rule, iters, i, amounts_each, percentages_each, error,
                    xdata, drawn >>

\* A further vessel.simulate_step(k) after the loop has ended.
CallAfterRun ==
    /\ pc = "done"
    /\ \E k \in -1..MaxSelect :
         \E r \in simulate_step(molecules, molecule_types, reactions, k) :
            SimulateStep(k, r)
    /\ UNCHANGED loopvars

NextRun == LoopStep \/ LoopExit \/ CallAfterRun

SpecRun == InitRun /\ [][NextRun]_vars

\* The loop is sequential code: an iteration that can be made is made, and a
\* loop that is exhausted is left.  Nothing obliges a caller to call again
\* after the run.
SpecRunFair == SpecRun /\ WF_vars(LoopStep) /\ WF_vars(LoopExit)

----------------------------------------------------------------------------
(* Properties *)

\* The latest simulate_step call got as far as tallying its reactants.
Tallied ==
    \/ outcome \in {"replaced", "nomatch"}
    \/ outcome \in Raised /\ rule > 0

Declared == Range(molecule_types)

\* C1: the population has as many molecules as it was constructed with
\* (total_amount, M) before and after every simulate_step call, whatever the
\* sample size and the rule table: molecules are overwritten in place.
C1_PopulationSizeConstant ==
    /\ Len(molecules) = Len(InitialMolecules(molecule_amounts))
    /\ Len(molecules) = total_amount

\* C1 witness: a call has overwritten a molecule of a population of four.
C1_Witness ==
    /\ outcome = "replaced"
    /\ Len(molecules) = 4
    /\ molecules # InitialMolecules(molecule_amounts)

\* C3: a call in which no reaction of the table can occur for the counts of
\* the sampled reactants leaves the population as it was, position by
\* position.
C3_NoMatchNoEffect ==
    [][(/\ Tallied'
        /\ \A n \in 1..Len(reactions) :
              can_occur(reactions[n], reactants_amounts', molecule_types) # "True")
       => molecules' = molecules]_vars

\* C3 witness: a call on a vessel that has reactions and molecules sampled
\* two reactants and found no reaction that can occur.
C3_Witness ==
    /\ outcome = "nomatch"
    /\ Len(reactions) > 0
    /\ Len(reactants) = 2
    /\ rule = 0

\* C7: the tally of a sample drawn from the declared types has exactly the
\* declared types as keys, maps each to its number of occurrences in the
\* sample (all zero for the empty sample), and its values sum to the sample's
\* length.
C7_TallyIsTotalCount ==
    Tallied =>
        /\ DOMAIN reactants_amounts = Declared
        /\ \A t \in Declared :
              reactants_amounts[t] = Occurrences(reactants, t)
        /\ DictSum(reactants_amounts) = Len(reactants)

\* C7 witness: the sample [A, B] was tallied as {A: 1, B: 1}.
C7_Witness ==
    /\ Tallied
    /\ reactants = << "A", "B" >>
    /\ reactants_amounts = [t \in {"A", "B"} |-> 1]

\* C7 witness of the empty sample: all zeros.
C7_WitnessEmpty ==
    /\ Tallied
    /\ reactants = << >>
    /\ reactants_amounts = [t \in {"A", "B"} |-> 0]

\* C10: a call whose sample size exceeds the population size or is negative
\* raises ValueError (out of range) and leaves the population as it was; and
\* no call that raises changes the population: a call completes its single
\* replacement or aborts before any mutation.
C10_FailedStepNoMutation ==
    [][/\ (number_to_select' < 0 \/ number_to_select' > Len(molecules))
          => (outcome' = "ValueError" /\ molecules' = molecules)
       /\ outcome' \in Raised => molecules' = molecules
       /\ outcome' \notin Raised =>
             \/ molecules' = molecules
             \/ \E slot \in RandRange(Len(molecules)), t \in Names :
                   molecules' = Replace(molecules, slot, t)]_vars

\* C10 witness: a call asked for two molecules of a population of one,
\* and raised.
C10_Witness ==
    /\ outcome = "ValueError"
    /\ number_to_select = 2
    /\ Len(molecules) = 1

\* The initial amounts and the products of the reactions use declared
\* molecule types only.
DeclaredOnly ==
    /\ DOMAIN molecule_amounts \subseteq Declared
    /\ \A n \in 1..Len(reactions) : reactions[n].product \in Declared

\* C2: in a run whose initial amounts and rule products use declared types
\* only, after every iteration the tally of the population over the declared
\* types counts each type's molecules and sums to M (total_amount), so the
\* percentages amount * 100 / M sum to 100 (their numerators to 100 * M).
C2_ConcentrationsSumTo100 ==
    (DeclaredOnly /\ pc \in {"running", "done"} /\ i > 0) =>
        /\ DOMAIN amounts_each = Declared
        /\ DictSum(amounts_each) = total_amount
        /\ pc = "running" =>
              \A t \in Declared : amounts_each[t] = Occurrences(molecules, t)
        /\ DOMAIN percentages_each = Declared
        /\ DictSum(percentages_each) = 100 * total_amount

\* C2 witness: the second iteration of a run over four molecules of declared
\* types ended with a replacement and both types present.
C2_Witness ==
    /\ DeclaredOnly
    /\ pc = "running"
    /\ i = 2
    /\ total_amount = 4
    /\ outcome = "replaced"
    /\ \A t \in Declared : amounts_each[t] > 0

\* The table rxns with its rows a and b swapped.
Swapped(rxns, a, b) ==
    [n \in DOMAIN rxns |-> IF n = a THEN rxns[b] ELSE IF n = b THEN rxns[a]
                                                 ELSE rxns[n]]

\* Reaction n of the table can occur for the tallied reactants.
Satisfied(n, amounts) == can_occur(reactions[n], amounts, molecule_types) = "True"

\* C4: a call that applies a product applies that of the earliest reaction
\* of the table that can occur for the reactants' counts; and when a later
\* reaction with another product can occur as well, the same reactants under
\* the table with these two reactions swapped get the product of the one now
\* earlier.
C4_FirstMatchWins ==
    [][outcome' = "replaced" =>
        /\ Satisfied(rule', reactants_amounts')
        /\ \A n \in 1..(rule' - 1) : ~Satisfied(n, reactants_amounts')
        /\ \E slot \in RandRange(Len(molecules)) :
              molecules' = Replace(molecules, slot, reactions[rule'].product)
        /\ \A n \in (rule' + 1)..Len(reactions) :
              (/\ Satisfied(n, reactants_amounts')
               /\ reactions[n].product # reactions[rule'].product)
              => \A r \in AfterSample(molecules, molecule_types,
                                       Swapped(reactions, rule', n), reactants') :
                    /\ r.outcome = "replaced"
                    /\ r.rule = rule'
                    /\ \E slot \in RandRange(Len(molecules)) :
                          r.molecules = Replace(molecules, slot,
                                                reactions[n].product)]_vars

\* C4 witness: a call applied the first reaction of a table whose second
\* reaction can occur for the same reactants and has another product.
C4_Witness ==
    /\ outcome = "replaced"
    /\ rule = 1
    /\ Len(reactions) = 2
    /\ Satisfied(2, reactants_amounts)
    /\ reactions[2].product # reactions[1].product

\* C5: can_occur(counts) is true exactly when counts[type] >= needed for every
\* (type, needed) of the reaction's requirement: true for every counts when
\* the requirement is empty, a declared type that the requirement does not
\* list needing 0.  Stated of every reaction of the table whose requirement
\* lists declared types only, and the counts of the latest call.
C5_CanOccurAsSpecified ==
    Tallied =>
        \A n \in 1..Len(reactions) :
            LET needed == reactions[n].reactants_needed
            IN  DOMAIN needed \subseteq DOMAIN reactants_amounts =>
                  (can_occur(reactions[n], reactants_amounts, molecule_types) = "True"
                     <=> \A t \in DOMAIN needed : reactants_amounts[t] >= needed[t])

\* C5, the code's behaviour: can_occur(counts) goes through the types of
\* counts in order, is false at the first type of which counts has less than
\* the requirement lists, and raises KeyError at the first type that the
\* requirement does not list.
C5_CanOccurAsCoded ==
    Tallied =>
        \A n \in 1..Len(reactions) :
            LET needed == reactions[n].reactants_needed
                c == can_occur(reactions[n], reactants_amounts, molecule_types)
                stops == { p \in 1..Len(molecule_types) :
                             \/ molecule_types[p] \notin DOMAIN needed
                             \/ reactants_amounts[molecule_types[p]]
                                  < needed[molecule_types[p]] }
            IN  /\ c = "True" <=> stops = {}
                /\ c = "KeyError" <=>
                      \E p \in stops :
                          /\ \A q \in stops : p <= q
                          /\ molecule_types[p] \notin DOMAIN needed

\* A call in the example configuration with sample size 2.
InScenario ==
    /\ molecule_types = ScenarioTypes
    /\ molecule_amounts = ScenarioAmounts
    /\ reactions = ScenarioReactions
    /\ number_to_select = 2
    /\ outcome # "none"

\* C6: in the example configuration with sample size 2 no call fails; the
\* sample {A, B} applies rule 1 (product A), the samples {A, A} and {B, B}
\* fall through to rule 2 (product B); the population size stays 4.
C6_Scenario ==
    InScenario =>
        /\ outcome = "replaced"
        /\ Len(molecules) = 4
        /\ Occurrences(reactants, "A") = 1 => rule = 1
        /\ Occurrences(reactants, "A") # 1 => rule = 2

\* C6, the code's behaviour: the sample {A, B} applies rule 1; for {A, A} and
\* {B, B} rule 1 cannot occur and can_occur of rule 2 raises KeyError, the
\* population unchanged.
C6_ScenarioAsCoded ==
    InScenario =>
        /\ Len(molecules) = 4
        /\ Occurrences(reactants, "A") = 1 => (outcome = "replaced" /\ rule = 1)
        /\ Occurrences(reactants, "A") # 1 => (outcome = "KeyError" /\ rule = 2)

\* C8 as claimed: a simulate_step call on a vessel whose run is done fails
\* and leaves the population unchanged.
C8_DoneRejectsSteps ==
    [][pc = "done" =>
          (outcome' \notin {"replaced", "nomatch"} /\ molecules' = molecules)]_vars

\* C8 as amended: the run is done exactly once iters iterations have been
\* completed without an exception, and the loop then makes no further step;
\* done is terminal for the loop (its counter and the concentrations it
\* computed no longer change); a simulate_step call made after it ends as any
\* other call does, with no error of its own kind.
C8_DoneEndsTheLoopOnly ==
    [][/\ pc' = "done" => (i' = iters' /\ error' = "none")
       /\ (pc = "running" /\ i >= iters) =>
             (pc' = "done" /\ molecules' = molecules /\ outcome' = outcome)
       /\ pc = "done" =>
             /\ pc' = "done"
             /\ << iters', i', amounts_each', percentages_each', error' >>
                  = << iters, i, amounts_each, percentages_each, error >>
             /\ outcome' \in {"replaced", "nomatch", "ValueError", "KeyError"}]_vars

\* C8 witness: a run of no iteration is done and a call made after it has
\* overwritten a molecule of the vessel.
C8_Witness ==
    /\ pc = "done"
    /\ iters = 0
    /\ outcome = "replaced"
    /\ molecules # InitialMolecules(molecule_amounts)

\* The defects of a configuration: initial amounts that omit a declared
\* type, no iteration to run, a requirement that lists an undeclared type, an
\* undeclared product.
ConfigDefect ==
    \/ ~(Declared \subseteq DOMAIN molecule_amounts)
    \/ iters <= 0
    \/ \E n \in 1..Len(reactions) :
          ~(DOMAIN reactions[n].reactants_needed \subseteq Declared)
    \/ \E n \in 1..Len(reactions) : reactions[n].product \notin Declared

\* C9 as claimed: a defective configuration is rejected before any step: no
\* simulate_step call is made in it and its run is never done; and no call is
\* made with a sample size outside [1, M].
C9_DefectsReportedAtStart ==
    /\ ConfigDefect => (outcome = "none" /\ pc # "done")
    /\ outcome # "none" => number_to_select \in 1..Len(molecules)

\* C9 as amended: nothing is reported at construction or start.  An
\* exception ends the run only inside the loop, during an iteration: a
\* ValueError for a sample size above M or negative (or for a replacement in
\* an empty population), a KeyError for an undeclared molecule in the
\* population (an undeclared product written earlier) or for a requirement
\* that does not list a declared type, a ZeroDivisionError for M = 0.  A call
\* with a sample size above M or negative always raises ValueError; the
\* other defects never end the run.
C9_DefectsSurfaceInLoopOrNever ==
    /\ pc = "failed" => (error \in Raised /\ outcome # "none" /\ i < iters)
    /\ pc # "failed" => error = "none"
    /\ (outcome # "none"
          /\ (number_to_select < 0 \/ number_to_select > Len(molecules)))
         => outcome = "ValueError"
    /\ error = "ValueError" =>
          \/ number_to_select < 0
          \/ number_to_select > Len(molecules)
          \/ Len(molecules) = 0 /\ rule > 0
    /\ error = "KeyError" =>
          \/ ~(Range(molecules) \subseteq Declared)
          \/ /\ rule > 0
             /\ ~(Declared \subseteq DOMAIN reactions[rule].reactants_needed)
    /\ error = "ZeroDivisionError" => total_amount = 0

\* C9 witness: an undeclared product, accepted at construction, ended the
\* run in its second iteration, when the population was tallied.
C9_Witness ==
    /\ pc = "failed"
    /\ error = "KeyError"
    /\ i = 1
    /\ outcome = "replaced"
    /\ DOMAIN molecule_amounts \subseteq Declared
    /\ reactions[rule].product \notin Declared

\* The latest call drew its sample (random.sample did not raise).
Sampled == outcome # "none" /\ ~(outcome = "ValueError" /\ rule = 0)

\* The scan of lines 79-80 over the table reaches reaction n and finds that it
\* can occur for amounts: no earlier reaction can occur or raises.
ScanFinds(n, amounts) ==
    /\ Satisfied(n, amounts)
    /\ \A m \in 1..(n - 1) :
          can_occur(reactions[m], amounts, molecule_types) = "False"

\* C12 (as the code has it): a call whose sample size equals the population
\* size is not refused by the sampling, and once tallied its counts are the
\* per-type counts of the whole population.  A call with sample size 0 is not
\* refused either: it samples nothing, tallies zero for every declared type
\* and goes on to the scan of the table, so that it overwrites a molecule when
\* the scan finds a reaction that can occur for the all-zero counts.
C12_WholeSampleAndEmptySampleAccepted ==
    [][/\ number_to_select' = Len(molecules) =>
            /\ Sampled'
            /\ Tallied' => \A t \in Declared :
                              reactants_amounts'[t] = Occurrences(molecules, t)
       /\ number_to_select' = 0 =>
            /\ Sampled' /\ Tallied'
            /\ reactants' = << >>
            /\ \A t \in Declared : reactants_amounts'[t] = 0
            /\ (/\ Len(molecules) > 0
                /\ \E n \in 1..Len(reactions) : ScanFinds(n, reactants_amounts'))
               => outcome' = "replaced"]_vars

\* C12 as stated: the whole-population sample is accepted and tallied as the
\* population, and a call with sample size 0 is rejected before anything is
\* sampled.
C12_EmptySampleRejected ==
    [][/\ number_to_select' = Len(molecules) /\ Len(molecules) > 0 =>
            /\ Sampled'
            /\ Tallied' => \A t \in Declared :
                              reactants_amounts'[t] = Occurrences(molecules, t)
       /\ number_to_select' = 0 =>
            /\ ~Sampled'
            /\ outcome' \in Raised
            /\ molecules' = molecules]_vars

\* C12 witness: a call that sampled the whole population of two molecules of
\* both declared types has tallied and overwritten one.
C12_Witness ==
    /\ number_to_select = 2
    /\ Len(molecules) = 2
    /\ Declared = Names
    /\ reactants_amounts = [t \in Names |-> 1]
    /\ outcome = "replaced"

\* A call with sample size 0 has overwritten a molecule.
C12_WitnessEmptySample ==
    /\ number_to_select = 0
    /\ reactants = << >>
    /\ Len(molecules) > 0
    /\ outcome = "replaced"

\* C13: the k reactants a call draws are the molecules at k pairwise distinct
\* positions of the population as it was when the call began: the sample has
\* k molecules, it holds no type more often than the population does, the
\* tallied counts are those of the sample, at most the population's counts,
\* and sum to k; nothing is taken out of the population by the drawing (after
\* the call it still has every position, at most one of them overwritten).
C13_SampleWithoutReplacement ==
    [][Sampled' =>
         /\ Len(reactants') = number_to_select'
         /\ \A t \in Names :
               Occurrences(reactants', t) <= Occurrences(molecules, t)
         /\ Tallied' =>
               /\ \A t \in Declared :
                     /\ reactants_amounts'[t] = Occurrences(reactants', t)
                     /\ reactants_amounts'[t] <= Occurrences(molecules, t)
               /\ DictSum(reactants_amounts') = number_to_select'
         /\ Len(molecules') = Len(molecules)
         /\ Cardinality({ n \in 1..Len(molecules) :
                            molecules'[n] # molecules[n] }) <= 1
         /\ outcome' # "replaced" => molecules' = molecules]_vars

\* C13 witness: a call has drawn two reactants of different types from a
\* population of four, the B before the A, and tallied one of each.
C13_Witness ==
    /\ Tallied
    /\ number_to_select = 2
    /\ Len(molecules) = 4
    /\ reactants = << "B", "A" >>
    /\ reactants_amounts = [t \in Names |-> 1]

\* C14: a call on a non-empty population whose scan of the table finds a
\* reaction that can occur overwrites exactly one position with the product
\* of that reaction, the first that can occur, and leaves every other position
\* as it was; every position of the population can be the one overwritten,
\* whatever positions the reactants were drawn from.
C14_OnePositionOverwritten ==
    [][\A n \in 1..Len(reactions) :
         (/\ Tallied'
          /\ ScanFinds(n, reactants_amounts')
          /\ Len(molecules) > 0)
         => /\ outcome' = "replaced"
            /\ rule' = n
            /\ \E slot \in 0..(Len(molecules) - 1) :
                  /\ molecules'[slot + 1] = reactions[n].product
                  /\ \A other \in 1..Len(molecules) :
                        other # slot + 1 => molecules'[other] = molecules[other]
            /\ \A slot \in 0..(Len(molecules) - 1) :
                  \E r \in simulate_step(molecules, molecule_types, reactions,
                                         number_to_select') :
                     /\ r.reactants = reactants'
                     /\ r.molecules =
                          [p \in 1..Len(molecules) |->
                              IF p = slot + 1 THEN reactions[n].product
                              ELSE molecules[p]]]_vars

\* C14 witness: a call drew the only two A of a population of four and wrote
\* the first reaction's product B over one of the molecules.
C14_Witness ==
    /\ outcome = "replaced"
    /\ number_to_select = 2
    /\ Len(molecules) = 4
    /\ reactants = << "A", "A" >>
    /\ rule = 1
    /\ reactions[1].product = "B"
    /\ Occurrences(molecules, "B") >= 2

\* C15: a run of iters iterations comes to an end: unless an exception of a
\* step or of the concentrations ends it (failed), it makes exactly iters
\* steps and is then done.  Every iteration that does not raise advances the
\* counter by one, whether or not a reaction was carried out, and adds one
\* data point to the chart.
C15_RunTerminates ==
    /\ <>(pc \in {"done", "failed"})
    /\ [](pc = "done" => i = iters /\ error = "none" /\ Len(xdata) = iters + 1)
    /\ [](pc = "failed" => i < iters /\ error \in Raised)
    /\ [](i <= iters)
    /\ [][pc = "running" /\ pc' = "running" =>
             /\ outcome' \in {"replaced", "nomatch"}
             /\ i' = i + 1]_vars
    /\ [][pc = "running" /\ i < iters /\ outcome' \in {"replaced", "nomatch"}
          /\ total_amount > 0 /\ DeclaredOnly =>
             /\ pc' = "running"
             /\ i' = i + 1]_vars

\* C15 witness: a run of two iterations is done after two steps, the second
\* of which carried out no reaction.
C15_Witness ==
    /\ pc = "done"
    /\ iters = 2
    /\ i = 2
    /\ xdata = << 0, 1, 2 >>
    /\ outcome = "nomatch"
    /\ molecules = InitialMolecules(molecule_amounts)

\* Step number step is an exact multiple of the float total/10, the period of
\* the throttle: it is 0, or total/10 is a float (total a multiple of 5) and
\* step a multiple of it.
MultipleOfPeriod(step, total) ==
    \/ step = 0
    \/ /\ total % 5 = 0
       /\ \E m \in 0..(10 * step) : m * total = 10 * step

InBasic ==
    /\ molecule_types = all_molecules_basic
    /\ reactions = BasicReactions(all_molecules_basic)

\* C17: with simulate_basic's table over the types A and B, every call that
\* draws two reactants carries out a reaction: it overwrites one position
\* with B when the two reactants are two A or an A and a B, and with A when
\* they are two B.
C17_BasicTableIsTotal ==
    [][(InBasic /\ number_to_select' = 2 /\ Len(molecules) >= 2) =>
         /\ outcome' = "replaced"
         /\ Len(reactants') = 2
         /\ LET product == IF Occurrences(reactants', "B") = 2 THEN "A" ELSE "B"
            IN  /\ reactions[rule'].product = product
                /\ \E slot \in 1..Len(molecules) :
                      molecules' = [molecules EXCEPT ![slot] = product]]_vars

\* C17 witness: a call on simulate_basic's vessel drew two B and wrote an A by
\* the fourth reaction of the table.
C17_Witness ==
    /\ InBasic
    /\ outcome = "replaced"
    /\ reactants = << "B", "B" >>
    /\ rule = 4
    /\ Occurrences(molecules, "A") >= 1

\* C18: a vessel of simulate_basic's table over A and B that was constructed
\* with at least one B among at least two molecules has at least one B after
\* any number of calls: B never dies out.
C18_BNeverExtinct ==
    (/\ InBasic
     /\ molecule_amounts["B"] >= 1
     /\ total_amount >= 2)
    => Occurrences(molecules, "B") >= 1

\* C18 witness: simulate_basic's vessel, constructed with two A and two B, has
\* no A left after a call that drew two reactants.
C18_Witness ==
    /\ InBasic
    /\ molecule_amounts = [t \in Names |-> 2]
    /\ number_to_select = 2
    /\ outcome = "replaced"
    /\ Occurrences(molecules, "A") = 0
    /\ Occurrences(molecules, "B") = 4

\* C19: with simulate_basic's table, a call that draws two reactants from a
\* population of one type only (of two molecules or more) leaves exactly one
\* molecule of the other type: one A after all B, one B after all A.  No such
\* call leaves a population of one type only as it found it.
C19_HomogeneousNotFixed ==
    [][(InBasic /\ number_to_select' = 2 /\ Len(molecules) >= 2) =>
         /\ Occurrences(molecules, "A") = 0 =>
               /\ Occurrences(molecules', "A") = 1
               /\ Occurrences(molecules', "B") = Len(molecules) - 1
         /\ Occurrences(molecules, "B") = 0 =>
               /\ Occurrences(molecules', "B") = 1
               /\ Occurrences(molecules', "A") = Len(molecules) - 1
         /\ ~(/\ \E t \in Names : Occurrences(molecules, t) = Len(molecules)
              /\ \E t \in Names : Occurrences(molecules', t) = Len(molecules'))]_vars

\* C19 witness: a call drew the two A of a population of two A and wrote a B
\* over one of them.
C19_Witness ==
    /\ InBasic
    /\ molecule_amounts = [t \in Names |-> IF t = "A" THEN 2 ELSE 0]
    /\ number_to_select = 2
    /\ reactants = << "A", "A" >>
    /\ outcome = "replaced"
    /\ Occurrences(molecules, "B") = 1
    /\ Occurrences(molecules, "A") = 1

\* A call drew two B from a population of B only and wrote an A.
C19_WitnessAllB ==
    /\ InBasic
    /\ molecule_amounts = [t \in Names |-> IF t = "B" THEN 2 ELSE 0]
    /\ number_to_select = 2
    /\ reactants = << "B", "B" >>
    /\ outcome = "replaced"
    /\ Occurrences(molecules, "A") = 1

\* C20: with simulate_basic's table the third reaction, which requires what
\* the second requires, is never the one a call carries out or stops at,
\* whatever the population and the number of reactants drawn: whenever it can
\* occur the second can, and the scan stops there.
C20_ThirdReactionNeverSelected ==
    InBasic =>
        /\ rule # 3
        /\ reactions[3].reactants_needed = reactions[2].reactants_needed
        /\ Tallied /\ Satisfied(3, reactants_amounts) => rule \in {1, 2}

\* C20 witness: a call drew an A and a B, for which the third reaction can
\* occur, and carried out the second.
C20_Witness ==
    /\ InBasic
    /\ outcome = "replaced"
    /\ reactants_amounts = [t \in Names |-> 1]
    /\ Satisfied(3, reactants_amounts)
    /\ rule = 2

============================================================================
